---------------------------- MODULE Spec2Model ----------------------------
(***************************************************************************)
(* A model of SpreaderDetectorBackend.c: the roster of Person records, the *)
(* merge sort and its two comparators, the binary search by id, the        *)
(* propagation of the infection probability along the meetings file, the   *)
(* classification written to the output file, and main's resource         *)
(* handling on every exit path.                                            *)
(*                                                                         *)
(* Numbers.                                                                *)
(*  - An id is an unsigned long (64 bits).  It is kept as three limbs,     *)
(*    [hi, l1, l0] standing for hi*2^32 + l1*2^16 + l0, so that the        *)
(*    conversion of the 64-bit difference to a 32-bit int in idCompare is  *)
(*    computed on the real widths.                                         *)
(*  - A float probability is kept on a grid of EPSILON/2: the finite value *)
(*    v stands for v * 0.5e-9, so ONE (1.0) is 2*10^9 grid steps, and the  *)
(*    two IEEE specials a division by zero produces are separate values.   *)
(***************************************************************************)
EXTENDS Integers, Sequences, FiniteSets, TLC

VARIABLES
    pc,            \* position of main
    peopleList,    \* the stored Person records, indices 0..personsCounter-1
    capacity,      \* allocated slots of peopleList
    res,           \* files: per handle "unopened", "open" or "closed";
                   \* closes: per handle, the fclose calls made on it;
                   \* listFrees: the free() calls made on the people array;
                   \* nameFrees: per name, the free() calls made on it
    namesMade,     \* number of names allocated by fillPerson
    exitCode,      \* "none", "success", "failure"
    output,        \* lines written to the output file, in order
    meetingsRead,  \* number of meeting lines processed
    spare,         \* the slot peopleList[personsCounter], once it has been read
    stored,        \* ghost: per index, how many meetings stored into it, and
                   \* of the last one the infected id on the line and the
                   \* infector's probability times the factor
    trouble,       \* ghost: what went wrong in a lookup, a meeting or sortById,
                   \* if anything
    arr,           \* unit harness: the input array
    cmp,           \* unit harness: the comparator, "id" or "prob"
    once,          \* unit harness: the array after one mergeSort
    twice,         \* unit harness: the array after a second mergeSort
    found,         \* unit harness: result of binarySearchById
    stage          \* unit harness: "input", "sorted", "resorted", "searched", or "off"

vars == <<pc, peopleList, capacity, res, namesMade,
          exitCode, output, meetingsRead, spare, stored, trouble,
          arr, cmp, once, twice, found, stage>>

-----------------------------------------------------------------------------
(* Program constants *)

ALLOC_SIZE == 2
EQUAL == 0
GREATER == 1
SMALLER == -1
MIN_DISTANCE == 1
MAX_TIME == 30

\* EPSILON (0.000000001) on the probability grid, whose step is EPSILON / 2
EPSILON == 2
\* the float 1 (1.0 is 10^9 times EPSILON)
ONE == EPSILON * 10^9
\* 0.1f and 0.3f on the probability grid
REGULAR_QUARANTINE_THRESHOLD == ONE \div 10
MEDICAL_SUPERVISION_THRESHOLD == (3 * (ONE \div 10))

(* Bounds of the model *)

\* longest array handed to the unit harness
MaxLen == 4
\* most lines of the people file
MaxPeople == 3
\* most meeting lines of the meetings file
MaxMeetings == 2

-----------------------------------------------------------------------------
(* unsigned long ids *)

Limb == 2^16

Id(hi, l1, l0) == [hi |-> hi, l1 |-> l1, l0 |-> l0]

\* a > b on unsigned long
ULongGreater(a, b) ==
    \/ a.hi > b.hi
    \/ a.hi = b.hi /\ a.l1 > b.l1
    \/ a.hi = b.hi /\ a.l1 = b.l1 /\ a.l0 > b.l0

\* (int)(a - b): the low 32 bits of the unsigned difference, read as signed
ULongDiffToInt(a, b) ==
    LET d0 == a.l0 - b.l0
        borrow == IF d0 < 0 THEN 1 ELSE 0
        r0 == d0 + borrow * Limb
        r1 == (a.l1 - b.l1 - borrow) % Limb
    IN IF r1 >= Limb \div 2 THEN (r1 - Limb) * Limb + r0 ELSE r1 * Limb + r0

-----------------------------------------------------------------------------
(* float probabilities *)

Fin(v) == [k |-> "fin", v |-> v]
INF == [k |-> "inf", v |-> 0]
NAN == [k |-> "nan", v |-> 0]

\* floor(p * a / b) without leaving 32 bits
MulDiv(p, a, b) == (p \div b) * a + ((p % b) * a) \div b

\* x * y for a probability x and a factor y = num/den returned by crna
FMul(x, y) ==
    IF x.k = "nan" \/ y.k = "nan" THEN NAN
    ELSE IF x.k = "inf" THEN (IF y.k = "fin" /\ y.num = 0 THEN NAN ELSE INF)
    ELSE IF y.k = "inf" THEN (IF x.v = 0 THEN NAN ELSE INF)
    ELSE Fin(MulDiv(x.v, y.num, y.den))

\* x > y
FGreater(x, y) ==
    IF x.k = "nan" \/ y.k = "nan" THEN FALSE
    ELSE IF x.k = "inf" THEN y.k = "fin"
    ELSE IF y.k = "inf" THEN FALSE
    ELSE x.v > y.v

\* x >= y
FGreaterEq(x, y) ==
    IF x.k = "nan" \/ y.k = "nan" THEN FALSE
    ELSE IF x.k = "inf" THEN TRUE
    ELSE IF y.k = "inf" THEN FALSE
    ELSE x.v >= y.v

\* fabsf(x - y) < EPSILON; inf - inf is NaN, and no comparison with NaN holds
FAbsDiffLtEps(x, y) ==
    /\ x.k = "fin"
    /\ y.k = "fin"
    /\ (IF x.v >= y.v THEN x.v - y.v ELSE y.v - x.v) < EPSILON

crna(dist, time) ==
    LET numerator == time * MIN_DISTANCE
        denominator == dist * MAX_TIME
    IN IF denominator = 0
       THEN (IF numerator = 0 THEN [k |-> "nan", num |-> 0, den |-> 0]
                              ELSE [k |-> "inf", num |-> 0, den |-> 0])
       ELSE [k |-> "fin", num |-> numerator, den |-> denominator]

-----------------------------------------------------------------------------
(* Person records and the comparators *)

Person(name, id, age, probability) ==
    [name |-> name, id |-> id, age |-> age, probability |-> probability]

\* a slot as calloc leaves it
ZeroPerson == Person(0, Id(0, 0, 0), 0, Fin(0))

idCompare(a, b) ==
    LET id1 == a.id
        id2 == b.id
    IN ULongDiffToInt(id1, id2)

probCompare(a, b) ==
    LET id1 == a.probability
        id2 == b.probability
    IN IF FAbsDiffLtEps(id1, id2) THEN EQUAL
       ELSE IF FGreater(id1, id2) THEN GREATER
       ELSE SMALLER

\* a call through the compFunc pointer
Compare(comp, a, b) == IF comp = "id" THEN idCompare(a, b) ELSE probCompare(a, b)

-----------------------------------------------------------------------------
(* Arrays are functions on 0..n-1, indexed as in the C code *)

\* the sub-array a pointer p + off designates, len elements long
View(p, off, len) == [i \in 0 .. len - 1 |-> p[off + i]]

RECURSIVE mergeLoop(_, _, _, _, _, _, _, _, _)
mergeLoop(list, a, aLen, b, bLen, start, comp, aI, bI) ==
    IF aI < aLen /\ bI < bLen
    THEN IF Compare(comp, a[aI], b[bI]) < 0
         THEN mergeLoop([list EXCEPT ![start + aI + bI] = a[aI]],
                        a, aLen, b, bLen, start, comp, aI + 1, bI)
         ELSE mergeLoop([list EXCEPT ![start + aI + bI] = b[bI]],
                        a, aLen, b, bLen, start, comp, aI, bI + 1)
    ELSE IF aI < aLen
    THEN [x \in DOMAIN list |->
             IF x - start - bI >= aI /\ x - start - bI < aLen
             THEN a[x - start - bI] ELSE list[x]]
    ELSE [x \in DOMAIN list |->
             IF x - start - aI >= bI /\ x - start - aI < bLen
             THEN b[x - start - aI] ELSE list[x]]

\* the loop with the test of line 342 inverted
RECURSIVE mergeLoopInverted(_, _, _, _, _, _, _, _, _)
mergeLoopInverted(list, a, aLen, b, bLen, start, comp, aI, bI) ==
    IF aI < aLen /\ bI < bLen
    THEN IF Compare(comp, a[aI], b[bI]) > 0
         THEN mergeLoopInverted([list EXCEPT ![start + aI + bI] = a[aI]],
                                a, aLen, b, bLen, start, comp, aI + 1, bI)
         ELSE mergeLoopInverted([list EXCEPT ![start + aI + bI] = b[bI]],
                                a, aLen, b, bLen, start, comp, aI, bI + 1)
    ELSE IF aI < aLen
    THEN [x \in DOMAIN list |->
             IF x - start - bI >= aI /\ x - start - bI < aLen
             THEN a[x - start - bI] ELSE list[x]]
    ELSE [x \in DOMAIN list |->
             IF x - start - aI >= bI /\ x - start - aI < bLen
             THEN b[x - start - aI] ELSE list[x]]

mergeInverted(list, a, aLen, b, bLen, start, comp) ==
    mergeLoopInverted(list, a, aLen, b, bLen, start, comp, 0, 0)

merge(list, a, aLen, b, bLen, start, comp) ==
    mergeLoop(list, a, aLen, b, bLen, start, comp, 0, 0)

\* mergeSort with the copy of line 385 reading peopleList[i], without the start
RECURSIVE mergeSortCopyFromZero(_, _, _, _, _, _)
mergeSortCopyFromZero(list, draft, doff, length, start, comp) ==
    IF length < 1
    THEN [list |-> list, draft |-> draft]
    ELSE LET aLen == length \div 2
             bLen == IF aLen = 0 THEN 0 ELSE length - aLen
             left == mergeSortCopyFromZero(list, draft, doff, aLen, start, comp)
             right == mergeSortCopyFromZero(left.list, left.draft, doff + aLen, bLen,
                                            aLen + start, comp)
             copied == [x \in DOMAIN right.draft |->
                           IF x >= doff /\ x < doff + length
                           THEN right.list[x - doff]
                           ELSE right.draft[x]]
         IN [list |-> merge(right.list, View(copied, doff, aLen), aLen,
                            View(copied, doff + aLen, bLen), bLen, start, comp),
             draft |-> copied]

\* draftList is the pointer draft + doff; the result is both arrays
RECURSIVE mergeSort(_, _, _, _, _, _)
mergeSort(list, draft, doff, length, start, comp) ==
    IF length < 1
    THEN [list |-> list, draft |-> draft]
    ELSE LET aLen == length \div 2
             bLen == IF aLen = 0 THEN 0 ELSE length - aLen
             left == mergeSort(list, draft, doff, aLen, start, comp)
             right == mergeSort(left.list, left.draft, doff + aLen, bLen,
                                aLen + start, comp)
             copied == [x \in DOMAIN right.draft |->
                           IF x >= doff /\ x < doff + length
                           THEN right.list[x - doff + start]
                           ELSE right.draft[x]]
         IN [list |-> merge(right.list, View(copied, doff, aLen), aLen,
                            View(copied, doff + aLen, bLen), bLen, start, comp),
             draft |-> copied]

\* the body shared by sortById and sortByProbability once calloc succeeded
sortWith(list, size, comp) ==
    LET draft == [i \in 0 .. size - 1 |-> ZeroPerson]
    IN mergeSort(list, draft, 0, size, 0, comp).list

-----------------------------------------------------------------------------
(* binarySearchById *)

\* C's integer division, which truncates toward zero
CDiv(x, y) == IF x >= 0 THEN x \div y ELSE -((-x) \div y)

\* peopleList[i] for the search: the stored records, or the slot after them
\* (`slot`), which the allocation always holds (capacity > personsCounter)
At(list, slot, i) == IF i \in DOMAIN list THEN list[i] ELSE slot

\* reads: the indices read so far; calls: the (start, end) pairs already
\* entered.  Entering a pair again means the recursion never ends.
RECURSIVE search(_, _, _, _, _, _, _)
search(list, slot, idToFind, start, end, reads, calls) ==
    LET mid == start + CDiv(end - start, 2)
        seen == reads \cup {mid}
    IN IF <<start, end>> \in calls
       THEN [kind |-> "diverges", idx |-> mid, reads |-> reads]
       ELSE IF At(list, slot, mid).id = idToFind
       THEN [kind |-> "index", idx |-> mid, reads |-> seen]
       ELSE IF ULongGreater(At(list, slot, mid).id, idToFind)
       THEN search(list, slot, idToFind, start, mid - 1, seen,
                   calls \cup {<<start, end>>})
       ELSE search(list, slot, idToFind, mid + 1, end, seen,
                   calls \cup {<<start, end>>})

\* the search with mid taken as (end - start) / 2, without the start
RECURSIVE searchNoStart(_, _, _, _, _, _, _)
searchNoStart(list, slot, idToFind, start, end, reads, calls) ==
    LET mid == CDiv(end - start, 2)
        seen == reads \cup {mid}
    IN IF <<start, end>> \in calls
       THEN [kind |-> "diverges", idx |-> mid, reads |-> reads]
       ELSE IF At(list, slot, mid).id = idToFind
       THEN [kind |-> "index", idx |-> mid, reads |-> seen]
       ELSE IF ULongGreater(At(list, slot, mid).id, idToFind)
       THEN searchNoStart(list, slot, idToFind, start, mid - 1, seen,
                          calls \cup {<<start, end>>})
       ELSE searchNoStart(list, slot, idToFind, mid + 1, end, seen,
                          calls \cup {<<start, end>>})

binarySearchNoStart(list, slot, idToFind, start, end) ==
    searchNoStart(list, slot, idToFind, start, end, {}, {})

binarySearchById(list, slot, idToFind, start, end) ==
    search(list, slot, idToFind, start, end, {}, {})

-----------------------------------------------------------------------------
(* Input pools *)

\* 1, 2, 2^30+2^29+1, 2^31+2, 2^31+2^30+1, 2^32+1
UnitIds ==
    {Id(0, 0, 1), Id(0, 0, 2), Id(0, 24576, 1), Id(0, 32768, 2),
     Id(0, 49152, 1), Id(1, 0, 1)}

\* probabilities 0, 0.5e-9, 1e-9, 1.5e-9, and the two specials
UnitProbs == {Fin(0), Fin(1), Fin(2), Fin(3), INF, NAN}

Ages == {30}

-----------------------------------------------------------------------------
(* Unit harness: mergeSort and binarySearchById applied to drawn arrays *)

unitVars == <<arr, cmp, once, twice, found, stage>>
mainVars == <<pc, peopleList, capacity, res, namesMade, exitCode, output,
              meetingsRead, spare, stored, trouble>>

Handles == {"people", "meetings", "output"}
NoTrouble ==
    [absent |-> FALSE, outside |-> FALSE, zero |-> FALSE, misordered |-> FALSE]

\* nothing opened, nothing allocated; names are numbered in allocation order
NoResources ==
    [files |-> [h \in Handles |-> "unopened"],
     closes |-> [h \in Handles |-> 0],
     listFrees |-> 0,
     nameFrees |-> [x \in 1 .. MaxPeople |-> 0]]

MainIdle ==
    /\ pc = "off"
    /\ peopleList = << >>
    /\ capacity = 0
    /\ res = NoResources
    /\ namesMade = 0
    /\ exitCode = "none"
    /\ output = << >>
    /\ meetingsRead = 0
    /\ spare = << >>
    /\ stored = << >>
    /\ trouble = NoTrouble

NotFound == [kind |-> "none", idx |-> 0, reads |-> {}, target |-> Id(0, 0, 0)]

\* sortById runs on a freshly read roster (every probability 0); and
\* sortByProbability runs on a roster whose records differ in id
UnitInit ==
    /\ MainIdle
    /\ stage = "input"
    /\ cmp \in {"id", "prob"}
    /\ \E n \in 0 .. MaxLen :
          \/ /\ cmp = "id"
             /\ \E ids \in [0 .. n - 1 -> UnitIds], age \in Ages :
                   arr = [i \in 0 .. n - 1 |-> Person(i + 1, ids[i], age, Fin(0))]
          \/ /\ cmp = "prob"
             /\ \E ps \in [0 .. n - 1 -> UnitProbs], age \in Ages :
                   arr = [i \in 0 .. n - 1 |->
                             Person(i + 1, Id(0, 0, i + 1), age, ps[i])]
    /\ once = << >>
    /\ twice = << >>
    /\ found = NotFound

Size(list) == Cardinality(DOMAIN list)

StrictlyAscendingById(list) ==
    \A i, j \in DOMAIN list : i < j => ULongGreater(list[j].id, list[i].id)

UnitSort ==
    /\ stage = "input"
    /\ once' = sortWith(arr, Size(arr), cmp)
    /\ stage' = "sorted"
    /\ UNCHANGED <<arr, cmp, twice, found>>
    /\ UNCHANGED mainVars

UnitResort ==
    /\ stage = "sorted"
    /\ twice' = sortWith(once, Size(once), cmp)
    /\ stage' = "resorted"
    /\ UNCHANGED <<arr, cmp, once, found>>
    /\ UNCHANGED mainVars

\* a lookup of an id that is present, in an array in ascending id order
UnitSearch ==
    /\ stage = "input"
    /\ cmp = "id"
    /\ StrictlyAscendingById(arr)
    /\ \E t \in DOMAIN arr :
          found' = [target |-> arr[t].id] @@
                   binarySearchById(arr, ZeroPerson, arr[t].id, 0, Size(arr) - 1)
    /\ stage' = "searched"
    /\ UNCHANGED <<arr, cmp, once, twice>>
    /\ UNCHANGED mainVars

UnitNext == UnitSort \/ UnitResort \/ UnitSearch

UnitSpec == UnitInit /\ [][UnitNext]_vars

-----------------------------------------------------------------------------
(* main: the files' contents are drawn line by line as they are read *)

\* ids that occur in the files: 1, 2 and 2^31+2
FileIds == {Id(0, 0, 1), Id(0, 0, 2), Id(0, 32768, 2)}

\* <<distance, time>> of a meeting line: factors 0.3, 0.1 and 0.5e-9, a zero
\* duration, a zero distance
Meetings == {<<1, 9>>, <<1, 3>>, <<66666666, 1>>, <<1, 0>>, <<0, 5>>}

\* what an uninitialised slot of the reallocated array may hold
Garbage ==
    {Person(0, id, 0, p) : id \in FileIds \cup {Id(0, 0, 0)}, p \in {Fin(0), Fin(ONE)}}

Init ==
    /\ pc = "argcCheck"
    /\ peopleList = << >>
    /\ capacity = 0
    /\ res = NoResources
    /\ namesMade = 0
    /\ exitCode = "none"
    /\ output = << >>
    /\ meetingsRead = 0
    /\ spare = << >>
    /\ stored = << >>
    /\ trouble = NoTrouble
    /\ arr = << >>
    /\ cmp = "id"
    /\ once = << >>
    /\ twice = << >>
    /\ found = NotFound
    /\ stage = "off"

personsCounter == Size(peopleList)

fopen(r, file) == [r EXCEPT !.files[file] = "open"]

fclose(r, file) ==
    [r EXCEPT !.files[file] = "closed", !.closes[file] = @ + 1]

\* the free() calls of freePeople(list, length), added to the counts
freePeople(r, list, length) ==
    [r EXCEPT !.nameFrees =
                  [x \in DOMAIN @ |->
                      @[x] + Cardinality({i \in 0 .. length - 1 : list[i].name = x})],
              !.listFrees = @ + 1]

\* beforeExitFailure without the fclose of lines 298-301
beforeExitFailureNoClose(r, fileToClose, haveList, list, size) ==
    IF haveList THEN freePeople(r, list, size) ELSE r

\* fileToClose is a handle or "NULL"; haveList is peopleList != NULL
beforeExitFailure(r, fileToClose, haveList, list, size) ==
    LET freed == IF haveList THEN freePeople(r, list, size) ELSE r
    IN IF fileToClose # "NULL" THEN fclose(freed, fileToClose) ELSE freed

\* exit(EXIT_FAILURE), or main's return EXIT_FAILURE
ExitFailure ==
    /\ pc' = "exited"
    /\ exitCode' = "failure"

Goto(next) ==
    /\ pc' = next
    /\ UNCHANGED exitCode

ghostVars == <<output, meetingsRead, stored, trouble>>

\* main, lines 571-574
ArgcCheck ==
    /\ pc = "argcCheck"
    /\ \/ Goto("openPeople")
       \/ ExitFailure
    /\ UNCHANGED <<peopleList, capacity, namesMade, spare, res>>
    /\ UNCHANGED ghostVars
    /\ UNCHANGED unitVars

\* main, lines 575-580
OpenPeopleFile ==
    /\ pc = "openPeople"
    /\ \/ /\ res' = fopen(res, "people")
          /\ Goto("readPeopleAlloc")
       \/ /\ ExitFailure
          /\ UNCHANGED res
    /\ UNCHANGED <<peopleList, capacity, namesMade, spare>>
    /\ UNCHANGED ghostVars
    /\ UNCHANGED unitVars

\* readPeopleFile, lines 418-426
ReadPeopleAlloc ==
    /\ pc = "readPeopleAlloc"
    /\ \/ /\ capacity' = ALLOC_SIZE
          /\ Goto("readPeople")
          /\ UNCHANGED res
       \/ /\ res' = beforeExitFailure(res, "people", FALSE, peopleList, 0)
          /\ ExitFailure
          /\ UNCHANGED capacity
    /\ UNCHANGED <<peopleList, namesMade, spare>>
    /\ UNCHANGED ghostVars
    /\ UNCHANGED unitVars

\* fillPerson, given that calloc returned the name
fillPerson(name, id, age) == Person(name, id, age, Fin(0))

\* one turn of the loop of readPeopleFile, lines 427-443, on a line of the file
ReadPersonLine ==
    /\ pc = "readPeople"
    /\ personsCounter < MaxPeople
    /\ \E id \in FileIds, age \in Ages :
          LET person == fillPerson(namesMade + 1, id, age)
              grown == [i \in 0 .. personsCounter |->
                           IF i = personsCounter THEN person ELSE peopleList[i]]
          IN \/ \* fillPerson fails: calloc of the name returned NULL
                /\ res' = beforeExitFailure(res, "people", TRUE, peopleList,
                                            personsCounter)
                /\ ExitFailure
                /\ UNCHANGED <<peopleList, capacity, namesMade>>
             \/ \* the record is stored and there is room left
                /\ personsCounter + 1 # capacity
                /\ peopleList' = grown
                /\ namesMade' = namesMade + 1
                /\ Goto("readPeople")
                /\ UNCHANGED <<capacity, res>>
             \/ \* the record is stored and allocateMore doubles the array
                /\ personsCounter + 1 = capacity
                /\ peopleList' = grown
                /\ namesMade' = namesMade + 1
                /\ capacity' = capacity * ALLOC_SIZE
                /\ Goto("readPeople")
                /\ UNCHANGED res
             \/ \* the record is stored and realloc fails in allocateMore
                /\ personsCounter + 1 = capacity
                /\ peopleList' = grown
                /\ namesMade' = namesMade + 1
                /\ res' = beforeExitFailure(res, "people", TRUE, grown,
                                            personsCounter + 1)
                /\ ExitFailure
                /\ UNCHANGED capacity
    /\ UNCHANGED spare
    /\ UNCHANGED ghostVars
    /\ UNCHANGED unitVars

\* readPeopleFile at end of file, lines 444-449
ReadPeopleEof ==
    /\ pc = "readPeople"
    /\ \/ /\ res' = fclose(res, "people")
          /\ Goto("sortById")
       \/ \* fclose returned EOF
          /\ res' = beforeExitFailure(fclose(res, "people"), "NULL", TRUE,
                                      peopleList, personsCounter)
          /\ ExitFailure
    /\ UNCHANGED <<peopleList, capacity, namesMade, spare>>
    /\ UNCHANGED ghostVars
    /\ UNCHANGED unitVars

\* sortById, lines 452-463; calloc may return NULL (it may for a size of 0 too)
SortById ==
    /\ pc = "sortById"
    /\ \/ /\ peopleList' = sortWith(peopleList, personsCounter, "id")
          /\ trouble' = [trouble EXCEPT
                            !.misordered = ~StrictlyAscendingById(peopleList')]
          /\ Goto("openMeetings")
          /\ UNCHANGED res
       \/ /\ res' = beforeExitFailure(res, "NULL", TRUE, peopleList, personsCounter)
          /\ ExitFailure
          /\ UNCHANGED <<peopleList, trouble>>
    /\ UNCHANGED <<capacity, namesMade, spare, output, meetingsRead, stored>>
    /\ UNCHANGED unitVars

\* main, lines 584-589
OpenMeetingsFile ==
    /\ pc = "openMeetings"
    /\ \/ /\ res' = fopen(res, "meetings")
          /\ Goto("readOrigin")
       \/ /\ res' = beforeExitFailure(res, "NULL", TRUE, peopleList, personsCounter)
          /\ ExitFailure
    /\ UNCHANGED <<peopleList, capacity, namesMade, spare>>
    /\ UNCHANGED ghostVars
    /\ UNCHANGED unitVars

-----------------------------------------------------------------------------
(* readMeetingsFile and probUpdater *)

\* The slot after the stored records is inside the allocation and never
\* written by readPeopleFile: zero while the array is the one calloc returned,
\* indeterminate once realloc has grown it.  It keeps the value first read.
SpareChoices ==
    IF spare # << >> THEN {spare[1]}
    ELSE IF capacity = ALLOC_SIZE THEN {ZeroPerson}
    ELSE Garbage

HasId(list, id) == \E i \in DOMAIN list : list[i].id = id

\* peopleList[idx].probability = value, on the records or on the slot after them
Store(list, slot, idx, value) ==
    IF idx \in DOMAIN list
    THEN [list |-> [list EXCEPT ![idx].probability = value], slot |-> slot]
    ELSE [list |-> list, slot |-> [slot EXCEPT !.probability = value]]

\* lines 518-520 of readMeetingsFile
markSick(list, slot, size, sickId) ==
    LET sick == binarySearchById(list, slot, sickId, 0, size - 1)
    IN IF sick.kind = "diverges"
       THEN [returned |-> FALSE, list |-> list, slot |-> slot, reads |-> sick.reads]
       ELSE [returned |-> TRUE, reads |-> sick.reads]
            @@ Store(list, slot, sick.idx, Fin(ONE))

\* the variant of probUpdater that keeps the larger of the old and the new value
probUpdaterMax(list, slot, size, infectorId, infectedId, distance, time) ==
    LET infector == binarySearchById(list, slot, infectorId, 0, size - 1)
        infected == binarySearchById(list, slot, infectedId, 0, size - 1)
        prob == crna(distance, time)
        from == At(list, slot, infector.idx).probability
        old == At(list, slot, infected.idx).probability
        new == IF FGreater(old, FMul(from, prob)) THEN old ELSE FMul(from, prob)
    IN IF infector.kind = "diverges"
       THEN [returned |-> FALSE, list |-> list, slot |-> slot,
             reads |-> infector.reads]
       ELSE IF infected.kind = "diverges"
       THEN [returned |-> FALSE, list |-> list, slot |-> slot,
             reads |-> infector.reads \cup infected.reads]
       ELSE [returned |-> TRUE, reads |-> infector.reads \cup infected.reads,
             infectorIdx |-> infector.idx, infectedIdx |-> infected.idx,
             from |-> from, prob |-> prob]
            @@ Store(list, slot, infected.idx, new)

probUpdater(list, slot, size, infectorId, infectedId, distance, time) ==
    LET infector == binarySearchById(list, slot, infectorId, 0, size - 1)
        infected == binarySearchById(list, slot, infectedId, 0, size - 1)
        prob == crna(distance, time)
        from == At(list, slot, infector.idx).probability
    IN IF infector.kind = "diverges"
       THEN [returned |-> FALSE, list |-> list, slot |-> slot,
             reads |-> infector.reads]
       ELSE IF infected.kind = "diverges"
       THEN [returned |-> FALSE, list |-> list, slot |-> slot,
             reads |-> infector.reads \cup infected.reads]
       ELSE [returned |-> TRUE, reads |-> infector.reads \cup infected.reads,
             infectorIdx |-> infector.idx, infectedIdx |-> infected.idx,
             from |-> from, prob |-> prob]
            @@ Store(list, slot, infected.idx, FMul(from, prob))

\* the slot after the records, once a lookup has read it
Pinned(slot, reads) ==
    IF personsCounter \in reads THEN <<slot>> ELSE spare

\* readMeetingsFile on an empty file, lines 510-517: whatever fclose returns,
\* the function returns to main
EmptyMeetings ==
    /\ pc = "readOrigin"
    /\ res' = fclose(res, "meetings")
    /\ Goto("sortByProbability")
    /\ UNCHANGED <<peopleList, capacity, namesMade, spare>>
    /\ UNCHANGED ghostVars
    /\ UNCHANGED unitVars

\* readMeetingsFile on the first line, lines 518-520.  A lookup that never
\* returns leaves the process in the recursion until the stack is exhausted.
ReadOrigin ==
    /\ pc = "readOrigin"
    /\ \E sickId \in FileIds, slot \in SpareChoices :
          \E done \in {markSick(peopleList, slot, personsCounter, sickId)} :
             /\ peopleList' = done.list
             /\ spare' = Pinned(done.slot, done.reads)
             /\ trouble' = [trouble EXCEPT
                               !.absent = @ \/ ~HasId(peopleList, sickId),
                               !.outside = @ \/ personsCounter \in done.reads]
             /\ IF done.returned THEN Goto("readMeetings") ELSE Goto("diverged")
    /\ UNCHANGED <<capacity, namesMade, res, output, meetingsRead, stored>>
    /\ UNCHANGED unitVars

Unset == [id |-> Id(0, 0, 0), value |-> Fin(0), times |-> 0]

Before(i) == IF i \in DOMAIN stored THEN stored[i] ELSE Unset

\* one turn of the loop of lines 521-524 on a meeting line
ReadMeeting ==
    /\ pc = "readMeetings"
    /\ meetingsRead < MaxMeetings
    /\ \E infectorId \in FileIds, infectedId \in FileIds, m \in Meetings,
          slot \in SpareChoices :
          \E done \in {probUpdater(peopleList, slot, personsCounter,
                                   infectorId, infectedId, m[1], m[2])} :
             /\ peopleList' = done.list
             /\ spare' = Pinned(done.slot, done.reads)
             /\ trouble' = [trouble EXCEPT
                               !.absent = @ \/ ~HasId(peopleList, infectorId)
                                            \/ ~HasId(peopleList, infectedId),
                               !.outside = @ \/ personsCounter \in done.reads,
                               !.zero = @ \/ (done.returned /\ (m[1] = 0 \/ m[2] = 0))]
             /\ stored' = [i \in DOMAIN peopleList |->
                              IF done.returned /\ i = done.infectedIdx
                              THEN [id |-> infectedId,
                                    value |-> FMul(done.from, done.prob),
                                    times |-> Before(i).times + 1]
                              ELSE Before(i)]
             /\ IF done.returned THEN Goto("readMeetings") ELSE Goto("diverged")
    /\ meetingsRead' = meetingsRead + 1
    /\ UNCHANGED <<capacity, namesMade, res, output>>
    /\ UNCHANGED unitVars

\* readMeetingsFile at end of file, lines 525-529
MeetingsEof ==
    /\ pc = "readMeetings"
    /\ \/ /\ res' = fclose(res, "meetings")
          /\ Goto("sortByProbability")
       \/ \* fclose returned EOF
          /\ res' = beforeExitFailure(fclose(res, "meetings"), "NULL", TRUE,
                                      peopleList, personsCounter)
          /\ ExitFailure
    /\ UNCHANGED <<peopleList, capacity, namesMade, spare>>
    /\ UNCHANGED ghostVars
    /\ UNCHANGED unitVars

-----------------------------------------------------------------------------
(* sortByProbability, writeOutput and the end of main *)

\* sortByProbability, lines 465-476
SortByProbability ==
    /\ pc = "sortByProbability"
    /\ \/ /\ peopleList' = sortWith(peopleList, personsCounter, "prob")
          /\ Goto("openOutput")
          /\ UNCHANGED res
       \/ /\ res' = beforeExitFailure(res, "NULL", TRUE, peopleList, personsCounter)
          /\ ExitFailure
          /\ UNCHANGED peopleList
    /\ stored' = << >>
    /\ UNCHANGED <<capacity, namesMade, spare, output, meetingsRead, trouble>>
    /\ UNCHANGED unitVars

\* main, lines 592-597
OpenOutputFile ==
    /\ pc = "openOutput"
    /\ \/ /\ res' = fopen(res, "output")
          /\ Goto("writeOutput")
       \/ /\ res' = beforeExitFailure(res, "NULL", TRUE, peopleList, personsCounter)
          /\ ExitFailure
    /\ UNCHANGED <<peopleList, capacity, namesMade, spare>>
    /\ UNCHANGED ghostVars
    /\ UNCHANGED unitVars

\* the message writeOutput picks for a probability, lines 536-550, with the
\* test of line 536-537 made without the epsilon clause and strict
messageStrict(probability) ==
    IF FGreater(probability, Fin(MEDICAL_SUPERVISION_THRESHOLD))
    THEN "MEDICAL_SUPERVISION_THRESHOLD_MSG"
    ELSE IF \/ FGreaterEq(probability, Fin(REGULAR_QUARANTINE_THRESHOLD))
            \/ FAbsDiffLtEps(probability, Fin(REGULAR_QUARANTINE_THRESHOLD))
    THEN "REGULAR_QUARANTINE_MSG"
    ELSE "CLEAN_MSG"

\* the message writeOutput picks for a probability, lines 536-550
message(probability) ==
    IF \/ FGreaterEq(probability, Fin(MEDICAL_SUPERVISION_THRESHOLD))
       \/ FAbsDiffLtEps(probability, Fin(MEDICAL_SUPERVISION_THRESHOLD))
    THEN "MEDICAL_SUPERVISION_THRESHOLD_MSG"
    ELSE IF \/ FGreaterEq(probability, Fin(REGULAR_QUARANTINE_THRESHOLD))
            \/ FAbsDiffLtEps(probability, Fin(REGULAR_QUARANTINE_THRESHOLD))
    THEN "REGULAR_QUARANTINE_MSG"
    ELSE "CLEAN_MSG"

\* the lines of the loop run from i = 0 up to size - 1
linesForward(list, size) ==
    [k \in 1 .. size |->
        [msg |-> message(list[k - 1].probability),
         name |-> list[k - 1].name,
         id |-> list[k - 1].id,
         probability |-> list[k - 1].probability]]

\* the lines of the loop of writeOutput, i = size - 1 down to 0; a line holds
\* the message, the name and the id, and (ghost) the probability it was chosen by
lines(list, size) ==
    [k \in 1 .. size |->
        [msg |-> message(list[size - k].probability),
         name |-> list[size - k].name,
         id |-> list[size - k].id,
         probability |-> list[size - k].probability]]

\* writeOutput, lines 532-557
WriteOutput ==
    /\ pc = "writeOutput"
    /\ output' = lines(peopleList, personsCounter)
    /\ \/ /\ res' = fclose(res, "output")
          /\ Goto("freePeople")
       \/ \* fclose returned EOF
          /\ res' = beforeExitFailure(fclose(res, "output"), "NULL", TRUE,
                                      peopleList, personsCounter)
          /\ ExitFailure
    /\ UNCHANGED <<peopleList, capacity, namesMade, spare, meetingsRead, stored,
                   trouble>>
    /\ UNCHANGED unitVars

\* main, lines 599-600
FreePeopleAndExit ==
    /\ pc = "freePeople"
    /\ res' = freePeople(res, peopleList, personsCounter)
    /\ pc' = "exited"
    /\ exitCode' = "success"
    /\ UNCHANGED <<peopleList, capacity, namesMade, spare>>
    /\ UNCHANGED ghostVars
    /\ UNCHANGED unitVars

Next ==
    \/ ArgcCheck
    \/ OpenPeopleFile
    \/ ReadPeopleAlloc
    \/ ReadPersonLine
    \/ ReadPeopleEof
    \/ SortById
    \/ OpenMeetingsFile
    \/ EmptyMeetings
    \/ ReadOrigin
    \/ ReadMeeting
    \/ MeetingsEof
    \/ SortByProbability
    \/ OpenOutputFile
    \/ WriteOutput
    \/ FreePeopleAndExit

Spec == Init /\ [][Next]_vars

-----------------------------------------------------------------------------
(* Properties *)

\* b holds the records of a, each as many times as a does
IsPermutation(a, b) ==
    /\ DOMAIN a = DOMAIN b
    /\ \A x \in DOMAIN a :
          Cardinality({i \in DOMAIN a : a[i] = a[x]})
          = Cardinality({i \in DOMAIN b : b[i] = a[x]})

NonDecreasing(list, comp) ==
    \A i \in DOMAIN list :
       (i + 1) \in DOMAIN list => Compare(comp, list[i], list[i + 1]) <= 0

\* C1: after mergeSort the array is a permutation of its input and every
\* adjacent pair is non-decreasing under the comparator, for arrays of length
\* 0, 1 and more and for idCompare and probCompare.
C1_SortedPermutation ==
    stage = "sorted" => IsPermutation(arr, once) /\ NonDecreasing(once, cmp)

C1_Witness ==
    /\ stage = "sorted"
    /\ Size(arr) >= 3
    /\ once # arr
    /\ cmp = "prob"

\* C2: in an array in strictly ascending id order, binarySearchById returns,
\* for every id present, the index of the record with that id, and reads no
\* index outside 0..n-1.
C2_SearchFindsPresentId ==
    stage = "searched" =>
       /\ found.kind = "index"
       /\ found.idx \in DOMAIN arr
       /\ arr[found.idx].id = found.target
       /\ found.reads \subseteq DOMAIN arr

C2_Witness ==
    /\ stage = "searched"
    /\ Size(arr) >= 3
    /\ found.kind = "index"
    /\ Cardinality(found.reads) >= 2

\* C3: when readMeetingsFile has returned, every record that meetings stored
\* into carries the id the last of them named as the infected party, and its
\* probability is the infector's probability at that moment times that
\* meeting's factor: earlier meetings for the same person leave no trace.
C3_LastMeetingWins ==
    pc = "sortByProbability" =>
       \A i \in DOMAIN stored :
          stored[i].times > 0 =>
             /\ peopleList[i].id = stored[i].id
             /\ peopleList[i].probability = stored[i].value

C3_Witness ==
    /\ pc = "sortByProbability"
    /\ \E i \in DOMAIN stored :
          /\ stored[i].times >= 2
          /\ stored[i].value = Fin(MEDICAL_SUPERVISION_THRESHOLD)

Finite(line) == line.probability.k = "fin"

\* C4, as stated: of any two output lines the earlier one has a probability
\* greater than or equal to that of the later one (taken on the lines with a
\* finite probability).
C4_OutputDescending ==
    \A i, j \in DOMAIN output :
       i < j /\ Finite(output[i]) /\ Finite(output[j]) =>
          output[i].probability.v >= output[j].probability.v

\* C4, amended: of any two adjacent output lines the later one does not compare
\* greater than the earlier one under probCompare; probabilities less than
\* EPSILON apart may come in either order.
C4_AdjacentLinesNotGreater ==
    \A k \in DOMAIN output :
       (k + 1) \in DOMAIN output => probCompare(output[k + 1], output[k]) <= 0

C4_Witness ==
    \E k \in DOMAIN output :
       /\ (k + 1) \in DOMAIN output
       /\ Finite(output[k])
       /\ Finite(output[k + 1])
       /\ output[k].probability.v < output[k + 1].probability.v

\* the tier the thresholds give a probability: at or above the threshold, or
\* less than EPSILON below it
Tier(p) ==
    IF p.k = "nan" THEN "CLEAN_MSG"
    ELSE IF p.k = "inf" \/ p.v > MEDICAL_SUPERVISION_THRESHOLD - EPSILON
    THEN "MEDICAL_SUPERVISION_THRESHOLD_MSG"
    ELSE IF p.v > REGULAR_QUARANTINE_THRESHOLD - EPSILON
    THEN "REGULAR_QUARANTINE_MSG"
    ELSE "CLEAN_MSG"

\* C5: writeOutput gives every person exactly one line, whose message is the
\* tier of the person's probability with inclusive, epsilon-tolerant
\* thresholds; a probability of 0.3, or within EPSILON of it, is hospitalization.
C5_OneTierByThreshold ==
    /\ \A k \in DOMAIN output : output[k].msg = Tier(output[k].probability)
    /\ pc = "freePeople" =>
          /\ Len(output) = personsCounter
          /\ \A i \in DOMAIN peopleList :
                Cardinality({k \in DOMAIN output :
                                output[k].name = peopleList[i].name}) = 1

C5_Witness ==
    \E k \in DOMAIN output :
       /\ output[k].probability = Fin(MEDICAL_SUPERVISION_THRESHOLD)
       /\ output[k].msg = "MEDICAL_SUPERVISION_THRESHOLD_MSG"

StrictlyOrders(comp, list) ==
    /\ \A i, j \in DOMAIN list :
          i # j => /\ Compare(comp, list[i], list[j]) # 0
                   /\ (Compare(comp, list[i], list[j]) < 0
                          <=> Compare(comp, list[j], list[i]) > 0)
    /\ \A i, j, k \in DOMAIN list :
          /\ Compare(comp, list[i], list[j]) < 0
          /\ Compare(comp, list[j], list[k]) < 0
          => Compare(comp, list[i], list[k]) < 0

C7_ZeroMeetingIsError ==
    trouble.zero => pc = "exited" /\ exitCode = "failure"

\* C8: a line naming an id that is not on the roster ends the run in the
\* failure state; the lookup returns and touches no index outside 0..size-1.
C8_AbsentIdIsError ==
    trouble.absent => pc = "exited" /\ exitCode = "failure" /\ ~trouble.outside

\* C9: when the process exits, every handle that was opened has had exactly one
\* fclose, and the people array and every stored name exactly one free; nothing
\* is ever closed or freed twice.
C9_ReleasedExactlyOnce ==
    /\ \A h \in Handles : res.closes[h] <= 1
    /\ res.listFrees <= 1
    /\ \A x \in DOMAIN res.nameFrees : res.nameFrees[x] <= 1
    /\ pc = "exited" =>
          /\ \A h \in Handles :
                /\ res.files[h] # "open"
                /\ res.closes[h] = IF res.files[h] = "unopened" THEN 0 ELSE 1
          /\ res.listFrees = IF capacity > 0 THEN 1 ELSE 0
          /\ \A x \in DOMAIN res.nameFrees :
                res.nameFrees[x] = IF x <= namesMade THEN 1 ELSE 0

C9_Witness ==
    /\ pc = "exited"
    /\ exitCode = "failure"
    /\ res.files["output"] = "closed"
    /\ namesMade >= 2

DistinctIds(list) ==
    \A i, j \in DOMAIN list : i # j => list[i].id # list[j].id

\* C10: after sortById a roster of distinct ids is in ascending numeric order
\* of id.
C10_SortByIdAscending ==
    pc = "openMeetings" /\ DistinctIds(peopleList) => StrictlyAscendingById(peopleList)

\* x == y on floats: never for a NaN
FExactlyEqual(x, y) == x.k # "nan" /\ y.k # "nan" /\ x = y

\* fabsf(x - y) >= EPSILON: never for a NaN, nor for two infinities
FAtLeastEpsApart(x, y) ==
    IF x.k = "nan" \/ y.k = "nan" THEN FALSE
    ELSE IF x.k = "inf" \/ y.k = "inf" THEN x # y
    ELSE (IF x.v >= y.v THEN x.v - y.v ELSE y.v - x.v) >= EPSILON

\* the final probabilities are pairwise exactly equal or at least EPSILON apart
TiesAreExact ==
    \A i, j \in DOMAIN output :
       i # j => \/ FExactlyEqual(output[i].probability, output[j].probability)
                \/ FAtLeastEpsApart(output[i].probability, output[j].probability)

\* C11: when sortById left a roster of distinct ids in ascending order of id
\* and the final probabilities are pairwise exactly equal or at least EPSILON
\* apart, of any two output lines with equal probability the earlier one has
\* the smaller id.
C11_TiesAscendingById ==
    ~trouble.misordered /\ TiesAreExact =>
       \A i, j \in DOMAIN output :
          i < j /\ FExactlyEqual(output[i].probability, output[j].probability) =>
             ULongGreater(output[j].id, output[i].id)

=============================================================================
